---- MODULE Spec2Model ----
(***************************************************************************)
(* Model of the markdown chunker, src/infra/rag/chunk_md.py (chunk_text).  *)
(*                                                                         *)
(* Encoding of text.  A text is a sequence of tokens.  A token is either a *)
(* word (a maximal run of non-whitespace characters) or BLANK, the         *)
(* paragraph separator "\n\n".  Words inside a paragraph are understood to *)
(* be separated by one space.  A paragraph is a sequence of words, the     *)
(* empty paragraph is << >>.  The classifiers look at the words exactly as *)
(* the regular expressions of the source look at the stripped paragraph.   *)
(***************************************************************************)
EXTENDS Integers, Sequences, FiniteSets, TLC

\* chunk_text (src/infra/rag/chunk_md.py)
VARIABLES text, hard_limit, paragraphs, chunks, i, pending_headings, pc, iter, last,
          starts

\* the soft_limit argument of chunk_text, and a second invocation of
\* chunk_text with its own arguments and locals
VARIABLES soft_limit, other

\* truncate_context_to_fit (src/o1-assessment/frontend/azure_openai_client.py)
VARIABLES messages, max_tokens, system_messages, conversation, estimated_tokens,
          truncated, tpc

\* generate_embedding (src/infra/rag/doc2md_utils.py)
VARIABLES etext, counter, incremental_backoff, calls, embedding, epc

chunkVars == <<text, hard_limit, paragraphs, chunks, i, pending_headings, pc, iter, last,
               starts>>

truncVars == <<messages, max_tokens, system_messages, conversation, estimated_tokens,
               truncated, tpc>>

embedVars == <<etext, counter, incremental_backoff, calls, embedding, epc>>

\* what a step of the first invocation of chunk_text does not touch
outside == <<soft_limit, other, truncVars, embedVars>>

vars == <<chunkVars, soft_limit, other, truncVars, embedVars>>

(***************************************************************************)
(* Bounds of the model.                                                    *)
(***************************************************************************)
MaxParas == 3
MaxMix == 5
MaxRun == 7
HardSmall == 2
HardMid == 3
HardLarge == 6
MaxTable == 6
HardHuge == 9
HardRun == 14
SoftLow == 1
SoftHigh == 4
MaxMsgs == 6
ShortContent == 3
LongContent == 8
TokensLow == 1
TokensHigh == 4
ExtraChars == 2
MaxCalls == 8
MaxPair == 2

BLANK == "\n\n"

(***************************************************************************)
(* Generic sequence helpers.                                               *)
(***************************************************************************)
Min(a, b) == IF a < b THEN a ELSE b

(***************************************************************************)
(* Word classes: what the regular expressions and substring tests of the   *)
(* source see in a word.                                                   *)
(***************************************************************************)
\* number of characters of a word made only of '#', 0 for any other word
HashRun(w) == CASE w = "#" -> 1 [] w = "##" -> 2 [] w = "###" -> 3 [] OTHER -> 0

\* the word is an ordered or unordered list marker
ListMarker(w) == w \in {"-", "*", "\\-", "\\*", "1."}

\* the word contains '|' or "<table>"
HasTableMark(w) == w \in {"|", "<table>", "#|"}

\* the lowercased word contains "pagebreak"
HasPageBreakMark(w) == w \in {"pagebreak", "PageBreak"}

(***************************************************************************)
(* The pure functions of chunk_md.py.                                      *)
(***************************************************************************)
get_token_count(t) == Len(SelectSeq(t, LAMBDA w : w # BLANK))

\* re.split(r'\n\s*\n', text): a maximal run of BLANK tokens is one separator
RECURSIVE SplitRuns(_, _, _)
SplitRuns(t, cur, inSep) ==
    IF t = << >> THEN << cur >>
    ELSE IF Head(t) = BLANK
         THEN IF inSep THEN SplitRuns(Tail(t), cur, TRUE)
              ELSE << cur >> \o SplitRuns(Tail(t), << >>, TRUE)
         ELSE SplitRuns(Tail(t), Append(cur, Head(t)), FALSE)

split_markdown_into_paragraphs(t) == SplitRuns(t, << >>, FALSE)

\* str.split('\n\n'): every BLANK token is a separator
RECURSIVE SplitExact(_, _)
SplitExact(t, cur) ==
    IF t = << >> THEN << cur >>
    ELSE IF Head(t) = BLANK
         THEN << cur >> \o SplitExact(Tail(t), << >>)
         ELSE SplitExact(Tail(t), Append(cur, Head(t)))

\* '\n\n'.join(paras)
RECURSIVE Join(_)
Join(ps) ==
    IF ps = << >> THEN << >>
    ELSE IF Len(ps) = 1 THEN ps[1]
    ELSE ps[1] \o << BLANK >> \o Join(Tail(ps))

is_list_item(p) == Len(p) >= 2 /\ ListMarker(p[1])

get_heading_level(p) == IF Len(p) >= 2 THEN HashRun(p[1]) ELSE 0

is_heading(p) == get_heading_level(p) > 0

is_table(p) == \E k \in DOMAIN p : HasTableMark(p[k])

is_page_break(p) == \E k \in DOMAIN p : HasPageBreakMark(p[k])

AllPageBreaks(ps) == \A k \in DOMAIN ps : is_page_break(ps[k])

AllHeadings(ps) == \A k \in DOMAIN ps : is_heading(ps[k])

(***************************************************************************)
(* Reasons and chunks.  A reason string of the source is kept as its fixed *)
(* wording (kind) and the numbers formatted into it; trailing records the  *)
(* suffix " + trailing headings".                                          *)
(***************************************************************************)
Reason(kind, a, b, c) == [kind |-> kind, a |-> a, b |-> b, c |-> c, trailing |-> FALSE]

Chunk(content, reason) == [content |-> content, reason |-> reason]

\* paragraphs[k] of the source, k counted from 0
Para(ps, k) == ps[k + 1]

(***************************************************************************)
(* The inner loops of chunk_text, as functions of the cursor and the       *)
(* accumulator (current_chunk, current_tokens).                            *)
(***************************************************************************)
LoopResult(j, cur, toks, groups, stop) ==
    [i |-> j, chunk |-> cur, tokens |-> toks, groups |-> groups, stop |-> stop]

\* the force-split windows with the slice of line 148 one word too long
RECURSIVE ForceSplitWindows_LongSlice(_, _, _)
ForceSplitWindows_LongSlice(words, hl, start) ==
    IF start < Len(words)
    THEN << Chunk(SubSeq(words, start + 1, Min(start + hl + 1, Len(words))),
                  Reason("Force-split oversized heading",
                         start, Min(start + hl, Len(words)), Len(words))) >>
         \o ForceSplitWindows_LongSlice(words, hl, start + hl)
    ELSE << >>

\* the force-split windows of an oversized heading (lines 145-153)
RECURSIVE ForceSplitWindows(_, _, _)
ForceSplitWindows(words, hl, start) ==
    IF start < Len(words)
    THEN << Chunk(SubSeq(words, start + 1, Min(start + hl, Len(words))),
                  Reason("Force-split oversized heading",
                         start, Min(start + hl, Len(words)), Len(words))) >>
         \o ForceSplitWindows(words, hl, start + hl)
    ELSE << >>

\* the table-grouping loop with the bound of line 163 written as 3
RECURSIVE TableLoop_ThreeGroups(_, _, _, _, _, _)
TableLoop_ThreeGroups(ps, hl, j, cur, toks, groups) ==
    IF j < Len(ps) /\ groups < 3
    THEN IF is_heading(Para(ps, j)) /\ (j + 1) < Len(ps) /\ is_table(Para(ps, j + 1))
         THEN LET group_tokens == get_token_count(Para(ps, j))
                                  + get_token_count(Para(ps, j + 1))
              IN  IF (toks + group_tokens > hl) /\ cur # << >>
                  THEN LoopResult(j, cur, toks, groups, "overflow")
                  ELSE TableLoop_ThreeGroups(ps, hl, j + 2,
                                 cur \o << Para(ps, j), Para(ps, j + 1) >>,
                                 toks + group_tokens, groups + 1)
         ELSE LoopResult(j, cur, toks, groups, "pattern")
    ELSE LoopResult(j, cur, toks, groups, IF groups < 3 THEN "end" ELSE "groups")

\* the table-grouping loop with the overflow test of line 169 written
\* without "and current_chunk"
RECURSIVE TableLoop_NoFirstPairException(_, _, _, _, _, _)
TableLoop_NoFirstPairException(ps, hl, j, cur, toks, groups) ==
    IF j < Len(ps) /\ groups < 2
    THEN IF is_heading(Para(ps, j)) /\ (j + 1) < Len(ps) /\ is_table(Para(ps, j + 1))
         THEN LET group_tokens == get_token_count(Para(ps, j))
                                  + get_token_count(Para(ps, j + 1))
              IN  IF toks + group_tokens > hl
                  THEN LoopResult(j, cur, toks, groups, "overflow")
                  ELSE TableLoop_NoFirstPairException(ps, hl, j + 2,
                                 cur \o << Para(ps, j), Para(ps, j + 1) >>,
                                 toks + group_tokens, groups + 1)
         ELSE LoopResult(j, cur, toks, groups, "pattern")
    ELSE LoopResult(j, cur, toks, groups, IF groups < 2 THEN "end" ELSE "groups")

\* the table-grouping loop taking a last heading as a pair with no table
RECURSIVE TableLoop_PairPastEnd(_, _, _, _, _, _)
TableLoop_PairPastEnd(ps, hl, j, cur, toks, groups) ==
    IF j < Len(ps) /\ groups < 2
    THEN IF is_heading(Para(ps, j)) /\ ((j + 1) < Len(ps) => is_table(Para(ps, j + 1)))
         THEN LET following == IF (j + 1) < Len(ps) THEN << Para(ps, j + 1) >> ELSE << >>
                  group_tokens == get_token_count(Para(ps, j))
                                  + get_token_count(Join(following))
              IN  IF (toks + group_tokens > hl) /\ cur # << >>
                  THEN LoopResult(j, cur, toks, groups, "overflow")
                  ELSE TableLoop_PairPastEnd(ps, hl, j + 2,
                                 cur \o << Para(ps, j) >> \o following,
                                 toks + group_tokens, groups + 1)
         ELSE LoopResult(j, cur, toks, groups, "pattern")
    ELSE LoopResult(j, cur, toks, groups, IF groups < 2 THEN "end" ELSE "groups")

\* the table-grouping loop (lines 162-180)
RECURSIVE TableLoop(_, _, _, _, _, _)
TableLoop(ps, hl, j, cur, toks, groups) ==
    IF j < Len(ps) /\ groups < 2
    THEN IF is_heading(Para(ps, j)) /\ (j + 1) < Len(ps) /\ is_table(Para(ps, j + 1))
         THEN LET group_tokens == get_token_count(Para(ps, j))
                                  + get_token_count(Para(ps, j + 1))
              IN  IF (toks + group_tokens > hl) /\ cur # << >>
                  THEN LoopResult(j, cur, toks, groups, "overflow")
                  ELSE TableLoop(ps, hl, j + 2,
                                 cur \o << Para(ps, j), Para(ps, j + 1) >>,
                                 toks + group_tokens, groups + 1)
         ELSE LoopResult(j, cur, toks, groups, "pattern")
    ELSE LoopResult(j, cur, toks, groups, IF groups < 2 THEN "end" ELSE "groups")

\* the collection loop with the level test of line 209 written as <
RECURSIVE HeadingLoop_SameLevelIncluded(_, _, _, _, _, _)
HeadingLoop_SameLevelIncluded(ps, hl, j, cur, toks, major_level) ==
    IF j < Len(ps)
    THEN IF is_heading(Para(ps, j)) /\ get_heading_level(Para(ps, j)) < major_level
         THEN LoopResult(j, cur, toks, 0, "level")
         ELSE LET para_tokens == get_token_count(Para(ps, j))
              IN  IF toks + para_tokens > hl
                  THEN LoopResult(j, cur, toks, 0, "overflow")
                  ELSE HeadingLoop_SameLevelIncluded(ps, hl, j + 1,
                           Append(cur, Para(ps, j)), toks + para_tokens, major_level)
    ELSE LoopResult(j, cur, toks, 0, "end")

\* the collection loop of a normal heading group (lines 206-226)
RECURSIVE HeadingLoop(_, _, _, _, _, _)
HeadingLoop(ps, hl, j, cur, toks, major_level) ==
    IF j < Len(ps)
    THEN IF is_heading(Para(ps, j)) /\ get_heading_level(Para(ps, j)) <= major_level
         THEN LoopResult(j, cur, toks, 0, "level")
         ELSE LET para_tokens == get_token_count(Para(ps, j))
              IN  IF toks + para_tokens > hl
                  THEN LoopResult(j, cur, toks, 0, "overflow")
                  ELSE HeadingLoop(ps, hl, j + 1, Append(cur, Para(ps, j)),
                                   toks + para_tokens, major_level)
    ELSE LoopResult(j, cur, toks, 0, "end")

\* the loop of lines 259-270 without the heading test of line 259
RECURSIVE NonHeadingLoop_PastHeadings(_, _, _, _, _)
NonHeadingLoop_PastHeadings(ps, hl, j, cur, toks) ==
    IF j < Len(ps)
    THEN LET para_tokens == get_token_count(Para(ps, j))
         IN  IF toks + para_tokens > hl
             THEN LoopResult(j, cur, toks, 0, "overflow")
             ELSE NonHeadingLoop_PastHeadings(ps, hl, j + 1, Append(cur, Para(ps, j)),
                                              toks + para_tokens)
    ELSE LoopResult(j, cur, toks, 0, "end")

\* the collection loop of the non-heading branch (lines 259-270)
RECURSIVE NonHeadingLoop(_, _, _, _, _)
NonHeadingLoop(ps, hl, j, cur, toks) ==
    IF j < Len(ps) /\ ~is_heading(Para(ps, j))
    THEN LET para_tokens == get_token_count(Para(ps, j))
         IN  IF toks + para_tokens > hl
             THEN LoopResult(j, cur, toks, 0, "overflow")
             ELSE NonHeadingLoop(ps, hl, j + 1, Append(cur, Para(ps, j)),
                                 toks + para_tokens)
    ELSE LoopResult(j, cur, toks, 0, IF j < Len(ps) THEN "heading" ELSE "end")

\* current_chunk = pending_headings + current_chunk (lines 185, 239, 276)
PrependPending_Dropped(pend, cur) == cur
PrependPending_Swapped(pend, cur) == cur \o pend
PrependPending(pend, cur) == pend \o cur

\* the emission overwriting the last chunk instead of appending
EmitUnlessPageBreaks_OverwritesLast(cs, current_chunk, reason) ==
    IF current_chunk # << >> /\ ~AllPageBreaks(current_chunk)
    THEN IF cs = << >>
         THEN << Chunk(Join(current_chunk), reason) >>
         ELSE [cs EXCEPT ![Len(cs)] = Chunk(Join(current_chunk), reason)]
    ELSE cs

\* the emission dropping a chunk that holds any page break
EmitUnlessPageBreaks_AnyPageBreak(cs, current_chunk, reason) ==
    IF current_chunk # << >> /\ ~(\E k \in DOMAIN current_chunk : is_page_break(current_chunk[k]))
    THEN Append(cs, Chunk(Join(current_chunk), reason))
    ELSE cs

\* append a chunk unless it is empty or made of page breaks only
\* (lines 188-190, 243-247, 287-289)
EmitUnlessPageBreaks(cs, current_chunk, reason) ==
    IF current_chunk # << >> /\ ~AllPageBreaks(current_chunk)
    THEN Append(cs, Chunk(Join(current_chunk), reason))
    ELSE cs

(***************************************************************************)
(* Inputs.  Texts are built from paragraphs of four pools joined by BLANK: *)
(* a wide pool for short inputs, a pool of headings, tables, page breaks   *)
(* and list items for inputs of medium length, a pool of headings of two   *)
(* levels and plain text for long runs of headings, and a pool of          *)
(* headings, tables and plain text for runs of (heading, table) pairs.     *)
(***************************************************************************)
Pool ==
    { << >>, << "a" >>, << "a", "a", "a" >>, << "a", "a", "a", "a" >>,
      << "#", "a" >>, << "##", "a" >>, << "#", "a", "a" >>,
      << "#", "a", "pagebreak", "a" >>, << "#", "a", "a", "a", "a", "a", "a" >>,
      << "|" >>, << "#", "|" >>, << "#", "|", "a" >>, << "pagebreak" >>,
      << "#", "pagebreak" >>,
      << "-", "a" >>, << "#" >> }

MixPool == { << "#", "a" >>, << "|" >>, << "a" >>, << "pagebreak" >>, << "-", "a" >> }

RunPool == { << "#", "a" >>, << "##", "a" >>, << "a" >> }

TablePool == { << "#", "a" >>, << "#", "a", "a" >>, << "|" >>, << "a" >> }

SeqsUpTo(S, n) == UNION { [1..k -> S] : k \in 0..n }

Inputs ==
    { Join(ps) : ps \in SeqsUpTo(Pool, MaxParas) \cup SeqsUpTo(MixPool, MaxMix)
                        \cup SeqsUpTo(RunPool, MaxRun)
                        \cup SeqsUpTo(TablePool, MaxTable) }

HardLimits == { HardSmall, HardMid, HardLarge, HardHuge, HardRun }

(***************************************************************************)
(* State.  text and hard_limit are the arguments of chunk_text; paragraphs,*)
(* chunks, i and pending_headings are its local variables; pc is the       *)
(* position in the function.  iter counts the iterations of the main loop  *)
(* and last records what the latest iteration did (its branch, the cursor  *)
(* before it, major_level, current_chunk as collected before the pending   *)
(* headings were merged in, why the collection stopped, and the pending    *)
(* buffer and the number of chunks before the iteration).  starts is the   *)
(* set of cursor values at which an iteration began.                       *)
(***************************************************************************)
Step(kind, level, group, stop) ==
    [kind |-> kind, from |-> i, level |-> level, group |-> group, stop |-> stop,
     pend |-> pending_headings, nchunks |-> Len(chunks)]

NoStep ==
    [kind |-> "none", from |-> 0, level |-> 0, group |-> << >>, stop |-> "none",
     pend |-> << >>, nchunks |-> 0]

\* the arguments and locals of an invocation of chunk_text (lines 80-103)
Invocation(t, soft, hard) ==
    [text |-> t, soft_limit |-> soft, hard_limit |-> hard, paragraphs |-> << >>,
     chunks |-> << >>, i |-> 0, pending_headings |-> << >>, pc |-> "start"]

\* no second invocation of chunk_text was made
NoInvocation == [Invocation(<< >>, SoftLow, HardSmall) EXCEPT !.pc = "none"]

\* truncate_context_to_fit was not called
TruncIdle ==
    /\ messages = << >>
    /\ max_tokens = 0
    /\ system_messages = << >>
    /\ conversation = << >>
    /\ estimated_tokens = 0
    /\ truncated = << >>
    /\ tpc = "none"

\* None, the value not yet returned, and an embedding vector; like the texts
\* they are sequences, of one element that is no character
None == << "None" >>

Unset == << "unset" >>

Vector == << "vector" >>

\* generate_embedding was not called
EmbedIdle ==
    /\ etext = << >>
    /\ counter = 0
    /\ incremental_backoff = <<1, 1>>
    /\ calls = 0
    /\ embedding = Unset
    /\ epc = "none"

Init ==
    /\ text \in Inputs
    /\ hard_limit \in HardLimits
    /\ paragraphs = << >>
    /\ chunks = << >>
    /\ i = 0
    /\ pending_headings = << >>
    /\ pc = "start"
    /\ iter = 0
    /\ last = NoStep
    /\ starts = {}
    /\ soft_limit = SoftLow
    /\ other = NoInvocation
    /\ TruncIdle
    /\ EmbedIdle

\* lines 100-103
Start ==
    /\ pc = "start"
    /\ paragraphs' = split_markdown_into_paragraphs(text)
    /\ chunks' = << >>
    /\ i' = 0
    /\ pending_headings' = << >>
    /\ pc' = "loop"
    /\ UNCHANGED outside
    /\ UNCHANGED <<text, hard_limit, iter, last, starts>>

\* line 109: the loop condition holds.  An iteration that leaves the cursor
\* where it was is repeated; iter stops counting one past the number of
\* paragraphs.
InLoop ==
    /\ pc = "loop"
    /\ i < Len(paragraphs)
    /\ iter <= Len(paragraphs)

\* the test of lines 112-113 without the list-item condition
SkipCondition_AnyNext(ps, j) ==
    /\ is_page_break(Para(ps, j))
    /\ (j + 1) < Len(ps)

\* lines 112-113
SkipCondition(ps, j) ==
    /\ is_page_break(Para(ps, j))
    /\ (j + 1) < Len(ps)
    /\ is_list_item(Para(ps, j + 1))

\* the skip emitting the page break as a chunk of its own
SkipPageBreak_EmitsPageBreak ==
    /\ InLoop
    /\ SkipCondition(paragraphs, i)
    /\ chunks' = Append(chunks, Chunk(Para(paragraphs, i),
                     Reason("Non-heading content", get_token_count(Para(paragraphs, i)), 0, 0)))
    /\ i' = i + 1
    /\ iter' = iter + 1
    /\ starts' = starts \cup {i}
    /\ last' = Step("skip", 0, << >>, "none")
    /\ UNCHANGED outside
    /\ UNCHANGED <<text, hard_limit, paragraphs, pending_headings, pc>>

\* lines 112-117
SkipPageBreak ==
    /\ InLoop
    /\ SkipCondition(paragraphs, i)
    /\ i' = i + 1
    /\ iter' = iter + 1
    /\ starts' = starts \cup {i}
    /\ last' = Step("skip", 0, << >>, "none")
    /\ UNCHANGED outside
    /\ UNCHANGED <<text, hard_limit, paragraphs, chunks, pending_headings, pc>>

\* the flush of lines 135-143 without the page-break test of line 138
FlushBeforeOversized_NoPageBreakTest(cs, pend) ==
    IF pend # << >>
    THEN Append(cs, Chunk(Join(pend),
                Reason("Flushing pending headings before oversized heading", 0, 0, 0)))
    ELSE cs

\* lines 135-143: the chunks after the pending headings were flushed
FlushBeforeOversized(cs, pend) ==
    IF pend # << >> /\ ~AllPageBreaks(pend)
    THEN Append(cs, Chunk(Join(pend),
                Reason("Flushing pending headings before oversized heading", 0, 0, 0)))
    ELSE cs

\* the force split leaving the flushed headings in the buffer
ForceSplitHeading_KeepsPending ==
    /\ InLoop
    /\ ~SkipCondition(paragraphs, i)
    /\ is_heading(Para(paragraphs, i))
    /\ get_token_count(Para(paragraphs, i)) > hard_limit
    /\ chunks' = FlushBeforeOversized(chunks, pending_headings)
                 \o ForceSplitWindows(Para(paragraphs, i), hard_limit, 0)
    /\ i' = i + 1
    /\ iter' = iter + 1
    /\ starts' = starts \cup {i}
    /\ last' = Step("force", get_heading_level(Para(paragraphs, i)),
                    << Para(paragraphs, i) >>, "none")
    /\ UNCHANGED outside
    /\ UNCHANGED <<text, hard_limit, paragraphs, pending_headings, pc>>

\* lines 130-155
ForceSplitHeading ==
    /\ InLoop
    /\ ~SkipCondition(paragraphs, i)
    /\ is_heading(Para(paragraphs, i))
    /\ get_token_count(Para(paragraphs, i)) > hard_limit
    /\ chunks' = FlushBeforeOversized(chunks, pending_headings)
                 \o ForceSplitWindows(Para(paragraphs, i), hard_limit, 0)
    /\ pending_headings' = << >>
    /\ i' = i + 1
    /\ iter' = iter + 1
    /\ starts' = starts \cup {i}
    /\ last' = Step("force", get_heading_level(Para(paragraphs, i)),
                    << Para(paragraphs, i) >>, "none")
    /\ UNCHANGED outside
    /\ UNCHANGED <<text, hard_limit, paragraphs, pc>>

\* the table path tried before the oversized-heading test of line 130
TableGroup_BeforeOversizeTest ==
    /\ InLoop
    /\ ~SkipCondition(paragraphs, i)
    /\ is_heading(Para(paragraphs, i))
    /\ (i + 1) < Len(paragraphs) /\ is_table(Para(paragraphs, i + 1))
    /\ LET r == TableLoop(paragraphs, hard_limit, i, << >>, 0, 0)
           current_chunk == PrependPending(pending_headings, r.chunk)
       IN  /\ chunks' = EmitUnlessPageBreaks(chunks, current_chunk,
                            Reason("Table chunk", r.groups, r.tokens, 0))
           /\ i' = r.i
           /\ last' = Step("table", get_heading_level(Para(paragraphs, i)),
                           r.chunk, r.stop)
    /\ pending_headings' = << >>
    /\ iter' = iter + 1
    /\ starts' = starts \cup {i}
    /\ UNCHANGED outside
    /\ UNCHANGED <<text, hard_limit, paragraphs, pc>>

\* lines 158-195
TableGroup ==
    /\ InLoop
    /\ ~SkipCondition(paragraphs, i)
    /\ is_heading(Para(paragraphs, i))
    /\ ~(get_token_count(Para(paragraphs, i)) > hard_limit)
    /\ (i + 1) < Len(paragraphs) /\ is_table(Para(paragraphs, i + 1))
    /\ LET r == TableLoop(paragraphs, hard_limit, i, << >>, 0, 0)
           current_chunk == PrependPending(pending_headings, r.chunk)
       IN  /\ chunks' = EmitUnlessPageBreaks(chunks, current_chunk,
                            Reason("Table chunk", r.groups, r.tokens, 0))
           /\ i' = r.i
           /\ last' = Step("table", get_heading_level(Para(paragraphs, i)),
                           r.chunk, r.stop)
    /\ pending_headings' = << >>
    /\ iter' = iter + 1
    /\ starts' = starts \cup {i}
    /\ UNCHANGED outside
    /\ UNCHANGED <<text, hard_limit, paragraphs, pc>>

\* the test of lines 230-231 without the all-headings condition
DeferGroup_AnyParagraphs(current_chunk) ==
    1 <= Len(current_chunk) /\ Len(current_chunk) <= 6

\* the test of lines 230-231 admitting seven headings
DeferGroup_UpToSeven(current_chunk) ==
    AllHeadings(current_chunk) /\ 1 <= Len(current_chunk) /\ Len(current_chunk) <= 7

\* lines 230-231
DeferGroup(current_chunk) ==
    AllHeadings(current_chunk) /\ 1 <= Len(current_chunk) /\ Len(current_chunk) <= 6

\* lines 198-252
HeadingGroup ==
    /\ InLoop
    /\ ~SkipCondition(paragraphs, i)
    /\ is_heading(Para(paragraphs, i))
    /\ ~(get_token_count(Para(paragraphs, i)) > hard_limit)
    /\ ~((i + 1) < Len(paragraphs) /\ is_table(Para(paragraphs, i + 1)))
    /\ LET major_level == get_heading_level(Para(paragraphs, i))
           r == HeadingLoop(paragraphs, hard_limit, i + 1, << Para(paragraphs, i) >>,
                            get_token_count(Para(paragraphs, i)), major_level)
           only_headings == AllHeadings(r.chunk)
           current_chunk == PrependPending(pending_headings, r.chunk)
       IN  /\ IF DeferGroup(r.chunk)
              THEN /\ pending_headings' = pending_headings \o r.chunk
                   /\ chunks' = chunks
              ELSE /\ pending_headings' = << >>
                   /\ chunks' = EmitUnlessPageBreaks(chunks, current_chunk,
                                    IF only_headings
                                    THEN Reason("Heading group", Len(current_chunk),
                                                r.tokens, 0)
                                    ELSE Reason("Content under heading level",
                                                major_level, r.tokens, 0))
           /\ i' = r.i
           /\ last' = Step("heading", major_level, r.chunk, r.stop)
    /\ iter' = iter + 1
    /\ starts' = starts \cup {i}
    /\ UNCHANGED outside
    /\ UNCHANGED <<text, hard_limit, paragraphs, pc>>

\* lines 255-294; the statement of lines 296-297 is never reached, every
\* branch above it ends in continue
NonHeadingGroup ==
    /\ InLoop
    /\ ~SkipCondition(paragraphs, i)
    /\ ~is_heading(Para(paragraphs, i))
    /\ LET r == NonHeadingLoop(paragraphs, hard_limit, i, << >>, 0)
           current_chunk == PrependPending(pending_headings, r.chunk)
       IN  /\ IF current_chunk # << >> /\ DeferGroup(current_chunk)
              THEN /\ pending_headings' = current_chunk
                   /\ chunks' = chunks
              ELSE /\ pending_headings' = << >>
                   /\ chunks' = EmitUnlessPageBreaks(chunks, current_chunk,
                                    Reason("Non-heading content", r.tokens, 0, 0))
           /\ i' = r.i
           /\ last' = Step("nonheading", 0, r.chunk, r.stop)
    /\ iter' = iter + 1
    /\ starts' = starts \cup {i}
    /\ UNCHANGED outside
    /\ UNCHANGED <<text, hard_limit, paragraphs, pc>>

\* finalization without the branch of lines 317-320
Finalization_NoSoleChunk(cs, pend) ==
    IF pend = << >> THEN cs
    ELSE IF cs # << >>
         THEN LET lastc == cs[Len(cs)]
                  combined == SplitExact(lastc.content, << >>) \o pend
              IN  IF ~AllPageBreaks(combined)
                  THEN [cs EXCEPT ![Len(cs)] =
                           Chunk(Join(combined), [lastc.reason EXCEPT !.trailing = TRUE])]
                  ELSE cs
         ELSE cs

\* finalization without the page-break test of line 320
Finalization_SoleChunkUntested(cs, pend) ==
    IF pend = << >> THEN cs
    ELSE IF cs # << >>
         THEN LET lastc == cs[Len(cs)]
                  combined == SplitExact(lastc.content, << >>) \o pend
              IN  IF ~AllPageBreaks(combined)
                  THEN [cs EXCEPT ![Len(cs)] =
                           Chunk(Join(combined), [lastc.reason EXCEPT !.trailing = TRUE])]
                  ELSE cs
         ELSE << Chunk(Join(pend), Reason("Only pending headings", Len(pend), 0, 0)) >>

\* finalization with the operands of line 308 exchanged
Finalization_PendingFirst(cs, pend) ==
    IF pend = << >> THEN cs
    ELSE IF cs # << >>
         THEN LET lastc == cs[Len(cs)]
                  combined == pend \o SplitExact(lastc.content, << >>)
              IN  IF ~AllPageBreaks(combined)
                  THEN [cs EXCEPT ![Len(cs)] =
                           Chunk(Join(combined), [lastc.reason EXCEPT !.trailing = TRUE])]
                  ELSE cs
         ELSE IF ~AllPageBreaks(pend)
              THEN << Chunk(Join(pend), Reason("Only pending headings", Len(pend), 0, 0)) >>
              ELSE cs

\* lines 300-324: the chunks returned
Finalization(cs, pend) ==
    IF pend = << >> THEN cs
    ELSE IF cs # << >>
         THEN LET lastc == cs[Len(cs)]
                  combined == SplitExact(lastc.content, << >>) \o pend
              IN  IF ~AllPageBreaks(combined)
                  THEN [cs EXCEPT ![Len(cs)] =
                           Chunk(Join(combined), [lastc.reason EXCEPT !.trailing = TRUE])]
                  ELSE cs
         ELSE IF ~AllPageBreaks(pend)
              THEN << Chunk(Join(pend), Reason("Only pending headings", Len(pend), 0, 0)) >>
              ELSE cs

\* line 109 (the loop condition fails) and lines 300-329
Finalize ==
    /\ pc = "loop"
    /\ ~(i < Len(paragraphs))
    /\ chunks' = Finalization(chunks, pending_headings)
    /\ pc' = "done"
    /\ last' = Step("final", 0, << >>, "none")
    /\ UNCHANGED outside
    /\ UNCHANGED <<text, hard_limit, paragraphs, i, pending_headings, iter, starts>>

Next ==
    \/ Start
    \/ SkipPageBreak
    \/ ForceSplitHeading
    \/ TableGroup
    \/ HeadingGroup
    \/ NonHeadingGroup
    \/ Finalize

Spec == Init /\ [][Next]_vars

\* the interpreter runs the next statement of the function as long as there
\* is one
FairSpec == Spec /\ WF_vars(Next)

(***************************************************************************)
(* Two invocations of chunk_text.  The first is the one of the variables   *)
(* above; the arguments and locals of the second are the fields of other.  *)
(* StepOf is the iteration of chunk_text as a function of the locals, and  *)
(* a step of the second invocation applies it to other.  The module state  *)
(* of chunk_md.py holds nothing an invocation writes: the two constants    *)
(* of lines 18-19 and the logger.                                          *)
(***************************************************************************)
\* the limit the tests of chunk_text compare with, soft_limit first
DecidingLimit_SoftFirst(s) == Min(s.soft_limit, s.hard_limit)

\* the limit the tests of lines 130, 168, 215 and 261 compare with;
\* soft_limit is read by the log message of line 106 only
DecidingLimit(s) == s.hard_limit

\* lines 100-324: one step of an invocation with the locals s
StepOf(s) ==
    LET hl == DecidingLimit(s)
        ps == s.paragraphs
        j == s.i
        pend == s.pending_headings
    IN  IF s.pc = "start"
        THEN [s EXCEPT !.paragraphs = split_markdown_into_paragraphs(s.text),
                       !.chunks = << >>, !.i = 0, !.pending_headings = << >>,
                       !.pc = "loop"]
        ELSE IF s.pc # "loop" THEN s
        ELSE IF ~(j < Len(ps))
        THEN [s EXCEPT !.chunks = Finalization(s.chunks, pend), !.pc = "done"]
        ELSE IF SkipCondition(ps, j)
        THEN [s EXCEPT !.i = j + 1]
        ELSE IF is_heading(Para(ps, j))
        THEN IF get_token_count(Para(ps, j)) > hl
             THEN [s EXCEPT !.chunks = FlushBeforeOversized(s.chunks, pend)
                                       \o ForceSplitWindows(Para(ps, j), hl, 0),
                            !.pending_headings = << >>,
                            !.i = j + 1]
             ELSE IF (j + 1) < Len(ps) /\ is_table(Para(ps, j + 1))
             THEN LET r == TableLoop(ps, hl, j, << >>, 0, 0)
                  IN  [s EXCEPT !.chunks = EmitUnlessPageBreaks(s.chunks,
                                               PrependPending(pend, r.chunk),
                                               Reason("Table chunk", r.groups, r.tokens, 0)),
                                !.pending_headings = << >>,
                                !.i = r.i]
             ELSE LET major_level == get_heading_level(Para(ps, j))
                      r == HeadingLoop(ps, hl, j + 1, << Para(ps, j) >>,
                                       get_token_count(Para(ps, j)), major_level)
                      current_chunk == PrependPending(pend, r.chunk)
                  IN  IF DeferGroup(r.chunk)
                      THEN [s EXCEPT !.pending_headings = pend \o r.chunk, !.i = r.i]
                      ELSE [s EXCEPT !.chunks = EmitUnlessPageBreaks(s.chunks, current_chunk,
                                                   IF AllHeadings(r.chunk)
                                                   THEN Reason("Heading group",
                                                               Len(current_chunk), r.tokens, 0)
                                                   ELSE Reason("Content under heading level",
                                                               major_level, r.tokens, 0)),
                                    !.pending_headings = << >>,
                                    !.i = r.i]
        ELSE LET r == NonHeadingLoop(ps, hl, j, << >>, 0)
                 current_chunk == PrependPending(pend, r.chunk)
             IN  IF current_chunk # << >> /\ DeferGroup(current_chunk)
                 THEN [s EXCEPT !.pending_headings = current_chunk, !.i = r.i]
                 ELSE [s EXCEPT !.chunks = EmitUnlessPageBreaks(s.chunks, current_chunk,
                                              Reason("Non-heading content", r.tokens, 0, 0)),
                                !.pending_headings = << >>,
                                !.i = r.i]

\* chunk_text run alone: the locals after at most fuel steps
RECURSIVE RunAlone(_, _)
RunAlone(s, fuel) ==
    IF s.pc = "done" \/ fuel = 0 THEN s ELSE RunAlone(StepOf(s), fuel - 1)

\* the list chunk_text returns for the arguments, run alone
chunk_text(t, soft, hard) == RunAlone(Invocation(t, soft, hard), Len(t) + 3).chunks

PairPool ==
    { << "#", "a" >>, << "#", "a", "a" >>, << "#", "a", "a", "a", "a" >>, << "|" >>,
      << "pagebreak" >>, << "-", "a" >>, << "a" >> }

PairInputs == { Join(ps) : ps \in SeqsUpTo(PairPool, MaxPair) }

OtherInputs ==
    { Join(<< << "#", "a", "a" >>, << "|" >>, << "a" >> >>),
      Join(<< << "pagebreak" >>, << "-", "a" >>, << "#", "a" >> >>) }

PairHardLimits == { HardSmall, HardMid }

SoftLimits == { SoftLow, SoftHigh }

PairInit ==
    /\ text \in PairInputs
    /\ hard_limit \in PairHardLimits
    /\ soft_limit \in SoftLimits
    /\ paragraphs = << >>
    /\ chunks = << >>
    /\ i = 0
    /\ pending_headings = << >>
    /\ pc = "start"
    /\ iter = 0
    /\ last = NoStep
    /\ starts = {}
    /\ other \in { Invocation(t, soft, hard) : t \in OtherInputs \cup {text},
                                               soft \in SoftLimits,
                                               hard \in PairHardLimits }
    /\ TruncIdle
    /\ EmbedIdle

\* a step of the second invocation that takes its pending buffer from the
\* first one
OtherStep_SharedPending ==
    /\ other.pc \in {"start", "loop"}
    /\ other' = StepOf([other EXCEPT !.pending_headings = pending_headings])
    /\ other' # other
    /\ UNCHANGED <<chunkVars, soft_limit, truncVars, embedVars>>

\* a step of the second invocation
OtherStep ==
    /\ other.pc \in {"start", "loop"}
    /\ other' = StepOf(other)
    /\ other' # other
    /\ UNCHANGED <<chunkVars, soft_limit, truncVars, embedVars>>

PairNext ==
    \/ Start
    \/ SkipPageBreak
    \/ ForceSplitHeading
    \/ TableGroup
    \/ HeadingGroup
    \/ NonHeadingGroup
    \/ Finalize
    \/ OtherStep

PairSpec == PairInit /\ [][PairNext]_vars

(***************************************************************************)
(* truncate_context_to_fit.  A message is a record of its role and its     *)
(* content; a content is a sequence of characters.  estimated_tokens,      *)
(* system_messages and conversation are the locals of the function,        *)
(* truncated is the list it returns and tpc its position.                  *)
(***************************************************************************)
Chars(n) == [k \in 1..n |-> "x"]

Message(role, n) == [role |-> role, content |-> Chars(n)]

MsgPool ==
    { Message("system", ShortContent), Message("user", ShortContent),
      Message("assistant", LongContent), Message("user", LongContent) }

MessageLists == SeqsUpTo(MsgPool, MaxMsgs)

MaxTokenChoices == { TokensLow, TokensHigh }

\* ''.join([msg['content'] for msg in ms]) (lines 155, 169)
RECURSIVE JoinContents(_)
JoinContents(ms) ==
    IF ms = << >> THEN << >> ELSE Head(ms).content \o JoinContents(Tail(ms))

\* lines 122-135
estimate_token_count(t) == Len(t) \div 4

\* line 151
SystemMessages(ms) == SelectSeq(ms, LAMBDA m : m.role = "system")

\* line 152
Conversation(ms) == SelectSeq(ms, LAMBDA m : m.role # "system")

TruncInit ==
    /\ messages \in MessageLists
    /\ max_tokens \in MaxTokenChoices
    /\ system_messages = << >>
    /\ conversation = << >>
    /\ estimated_tokens = 0
    /\ truncated = << >>
    /\ tpc = "start"
    /\ text = << >> /\ hard_limit = HardSmall /\ paragraphs = << >> /\ chunks = << >>
    /\ i = 0 /\ pending_headings = << >> /\ pc = "none" /\ iter = 0
    /\ last = NoStep /\ starts = {}
    /\ soft_limit = SoftLow
    /\ other = NoInvocation
    /\ EmbedIdle

\* lines 150-160: the input is within the limit and is returned as it is
TruncReturnAsIs ==
    /\ tpc = "start"
    /\ estimate_token_count(JoinContents(messages)) <= max_tokens
    /\ system_messages' = SystemMessages(messages)
    /\ conversation' = Conversation(messages)
    /\ estimated_tokens' = estimate_token_count(JoinContents(messages))
    /\ truncated' = messages
    /\ tpc' = "done"
    /\ UNCHANGED <<messages, max_tokens, chunkVars, soft_limit, other, embedVars>>

\* lines 150-159: the input is over the limit
TruncEnterLoop ==
    /\ tpc = "start"
    /\ ~(estimate_token_count(JoinContents(messages)) <= max_tokens)
    /\ system_messages' = SystemMessages(messages)
    /\ conversation' = Conversation(messages)
    /\ estimated_tokens' = estimate_token_count(JoinContents(messages))
    /\ tpc' = "loop"
    /\ UNCHANGED <<messages, max_tokens, truncated, chunkVars, soft_limit, other,
                   embedVars>>

\* the loop body removing the newest pair
TruncRemovePair_Newest ==
    /\ tpc = "loop"
    /\ estimated_tokens > max_tokens /\ Len(conversation) > 2
    /\ conversation' = SubSeq(conversation, 1, Len(conversation) - 2)
    /\ estimated_tokens' =
           estimate_token_count(JoinContents(system_messages \o conversation'))
    /\ UNCHANGED <<messages, max_tokens, system_messages, truncated, tpc, chunkVars,
                   soft_limit, other, embedVars>>

\* lines 163-170: one iteration of the loop
TruncRemovePair ==
    /\ tpc = "loop"
    /\ estimated_tokens > max_tokens /\ Len(conversation) > 2
    /\ conversation' = SubSeq(conversation, 3, Len(conversation))
    /\ estimated_tokens' =
           estimate_token_count(JoinContents(system_messages \o conversation'))
    /\ UNCHANGED <<messages, max_tokens, system_messages, truncated, tpc, chunkVars,
                   soft_limit, other, embedVars>>

\* lines 163, 172: the loop condition fails
TruncReturn ==
    /\ tpc = "loop"
    /\ ~(estimated_tokens > max_tokens /\ Len(conversation) > 2)
    /\ truncated' = system_messages \o conversation
    /\ tpc' = "done"
    /\ UNCHANGED <<messages, max_tokens, system_messages, conversation,
                   estimated_tokens, chunkVars, soft_limit, other, embedVars>>

TruncNext ==
    \/ TruncReturnAsIs
    \/ TruncEnterLoop
    \/ TruncRemovePair
    \/ TruncReturn

TruncSpec == TruncInit /\ [][TruncNext]_vars

\* the interpreter runs the next statement of the function as long as there
\* is one
TruncFairSpec == TruncSpec /\ WF_vars(TruncNext)

(***************************************************************************)
(* generate_embedding.  etext is the argument (None or a sequence of       *)
(* characters), counter and incremental_backoff are the locals of the      *)
(* retry loop, calls counts the calls of client.embeddings.create,         *)
(* embedding is the value returned and epc the position.  The answer of    *)
(* the service to a call is chosen by the environment.  The function       *)
(* catches every exception of a call itself, so the retry decorator of     *)
(* line 299 never sees one of them.  incremental_backoff is a fraction,    *)
(* numerator and denominator; the model stops after MaxCalls calls.        *)
(***************************************************************************)
max_attempts == 6

max_backoff == 60

MinChars == 10

EmbedTexts == { None } \cup { Chars(n) : n \in { 0, MinChars - 1, MinChars,
                                                MinChars + ExtraChars } }

\* min(max_backoff, incremental_backoff * 1.5) (line 324)
NextBackoff(b) ==
    IF b[1] * 3 >= max_backoff * b[2] * 2
    THEN <<max_backoff, 1>>
    ELSE <<b[1] * 3, b[2] * 2>>

EmbedInit ==
    /\ etext \in EmbedTexts
    /\ counter = 0
    /\ incremental_backoff = <<1, 1>>
    /\ calls = 0
    /\ embedding = Unset
    /\ epc = "start"
    /\ text = << >> /\ hard_limit = HardSmall /\ paragraphs = << >> /\ chunks = << >>
    /\ i = 0 /\ pending_headings = << >> /\ pc = "none" /\ iter = 0
    /\ last = NoStep /\ starts = {}
    /\ soft_limit = SoftLow
    /\ other = NoInvocation
    /\ TruncIdle

\* lines 301-305
EmbedReject ==
    /\ epc = "start"
    /\ (etext = None \/ Len(etext) < MinChars)
    /\ embedding' = None
    /\ epc' = "done"
    /\ UNCHANGED <<etext, counter, incremental_backoff, calls, chunkVars, soft_limit,
                   other, truncVars>>

\* lines 307-313
EmbedEnterLoop ==
    /\ epc = "start"
    /\ ~(etext = None \/ Len(etext) < MinChars)
    /\ counter' = 0
    /\ incremental_backoff' = <<1, 1>>
    /\ epc' = "loop"
    /\ UNCHANGED <<etext, calls, embedding, chunkVars, soft_limit, other, truncVars>>

\* line 314: the loop condition holds and the service is called
InRetryLoop == epc = "loop" /\ counter < max_attempts /\ calls < MaxCalls

\* lines 316-320: the call returns
EmbedCallReturns ==
    /\ InRetryLoop
    /\ calls' = calls + 1
    /\ embedding' = Vector
    /\ epc' = "done"
    /\ UNCHANGED <<etext, counter, incremental_backoff, chunkVars, soft_limit, other,
                   truncVars>>

\* lines 321-326: APIError with code 429
EmbedCallThrottled ==
    /\ InRetryLoop
    /\ calls' = calls + 1
    /\ incremental_backoff' = NextBackoff(incremental_backoff)
    /\ UNCHANGED <<etext, counter, embedding, epc, chunkVars, soft_limit, other,
                   truncVars>>

\* lines 321, 327-329: APIError with code content_filter
EmbedCallFiltered ==
    /\ InRetryLoop
    /\ calls' = calls + 1
    /\ embedding' = None
    /\ epc' = "done"
    /\ UNCHANGED <<etext, counter, incremental_backoff, chunkVars, soft_limit, other,
                   truncVars>>

\* lines 321-329: APIError with another code; neither branch is taken
EmbedCallOtherAPIError ==
    /\ InRetryLoop
    /\ calls' = calls + 1
    /\ UNCHANGED <<etext, counter, incremental_backoff, embedding, epc, chunkVars,
                   soft_limit, other, truncVars>>

\* lines 330-332: another exception
EmbedCallOtherException ==
    /\ InRetryLoop
    /\ calls' = calls + 1
    /\ counter' = counter + 1
    /\ UNCHANGED <<etext, incremental_backoff, embedding, epc, chunkVars, soft_limit,
                   other, truncVars>>

\* lines 314, 333: the loop condition fails
EmbedGiveUp ==
    /\ epc = "loop"
    /\ ~(counter < max_attempts)
    /\ embedding' = None
    /\ epc' = "done"
    /\ UNCHANGED <<etext, counter, incremental_backoff, calls, chunkVars, soft_limit,
                   other, truncVars>>

EmbedNext ==
    \/ EmbedReject
    \/ EmbedEnterLoop
    \/ EmbedCallReturns
    \/ EmbedCallThrottled
    \/ EmbedCallFiltered
    \/ EmbedCallOtherAPIError
    \/ EmbedCallOtherException
    \/ EmbedGiveUp

EmbedSpec == EmbedInit /\ [][EmbedNext]_vars

(***************************************************************************)
(* Claims.                                                                 *)
(***************************************************************************)
\* the program state of chunk_text inside the main loop
LoopState == <<i, chunks, pending_headings>>

\* C1: chunk_text terminates for every text and every positive hard limit:
\* no iteration of the main loop ends in the program state it began in (the
\* function is deterministic, so such an iteration is repeated forever and
\* the cursor never reaches the end of the paragraphs).
C1_NoIterationRepeatsState ==
    [][(pc = "loop" /\ pc' = "loop") => (LoopState' # LoopState)]_vars

\* C2: in the returned list every chunk has at most hard_limit tokens,
\* except the chunks of the table-grouping path; chunks that had pending
\* headings prepended and the last chunk after trailing headings were
\* appended are included.
C2_ChunksWithinHardLimit ==
    pc = "done" =>
        \A k \in DOMAIN chunks :
            \/ chunks[k].reason.kind = "Table chunk"
            \/ get_token_count(chunks[k].content) <= hard_limit

\* the paragraphs of the emitted chunks in output order, the windows of a
\* force-split heading put together again
RECURSIVE Reassemble(_, _)
Reassemble(cs, acc) ==
    IF cs = << >> THEN (IF acc = << >> THEN << >> ELSE << acc >>)
    ELSE LET c == Head(cs)
             ps == SplitExact(c.content, << >>)
         IN  IF c.reason.kind = "Force-split oversized heading"
             THEN LET before == IF c.reason.a = 0 /\ acc # << >> THEN << acc >> ELSE << >>
                      w == IF c.reason.a = 0 THEN ps[1] ELSE acc \o ps[1]
                  IN  IF c.reason.b = c.reason.c
                      THEN before \o << w >> \o Tail(ps) \o Reassemble(Tail(cs), << >>)
                      ELSE before \o Tail(ps) \o Reassemble(Tail(cs), w)
             ELSE (IF acc = << >> THEN << >> ELSE << acc >>)
                  \o ps \o Reassemble(Tail(cs), << >>)

RECURSIVE IsSubsequence(_, _)
IsSubsequence(a, b) ==
    IF a = << >> THEN TRUE
    ELSE IF b = << >> THEN FALSE
    ELSE IF Head(a) = Head(b) THEN IsSubsequence(Tail(a), Tail(b))
    ELSE IsSubsequence(a, Tail(b))

\* C3: when chunk_text returns, the paragraphs of the chunks read in output
\* order (the windows of a force-split heading put together again) are a
\* subsequence of the input paragraphs: nothing duplicated, reordered or
\* fabricated.
C3_OutputIsSubsequence ==
    pc = "done" => IsSubsequence(Reassemble(chunks, << >>), paragraphs)

\* C3 witness: a returned list of several chunks with a force-split heading,
\* merged pending headings and a dropped paragraph
C3_Witness ==
    /\ pc = "done"
    /\ Len(chunks) >= 3
    /\ \E k \in DOMAIN chunks : chunks[k].reason.kind = "Force-split oversized heading"
    /\ \E k \in DOMAIN chunks : Len(SplitExact(chunks[k].content, << >>)) >= 2
    /\ Len(Reassemble(chunks, << >>)) < Len(paragraphs)

\* the paragraphs of an emitted chunk
ChunkParas(c) == SplitExact(c.content, << >>)

\* C4: no chunk of the returned list consists solely of page-break
\* paragraphs, whichever emission site produced it.
C4_NoPageBreakOnlyChunk ==
    pc = "done" => \A k \in DOMAIN chunks : ~AllPageBreaks(ChunkParas(chunks[k]))

\* C5: a step of the non-heading branch always admits the paragraph at the
\* cursor into its empty accumulator, whatever its token count, so the
\* cursor advances by at least one in that step.
C5_FirstParagraphAdmitted ==
    last.kind = "nonheading" =>
        /\ last.group # << >>
        /\ last.group[1] = Para(paragraphs, last.from)
        /\ i >= last.from + 1

\* paragraphs s..e (counted from 0) are 1 to 6 headings and paragraph e + 1
\* is not a heading
HeadingRun(s, e) ==
    /\ 0 <= s /\ s <= e /\ e - s + 1 <= 6 /\ e + 1 < Len(paragraphs)
    /\ \A k \in s..e : is_heading(Para(paragraphs, k))
    /\ ~is_heading(Para(paragraphs, e + 1))

\* the sequence ps contains the sequence qs as a block
ContainsBlock(ps, qs) ==
    \E off \in 0..(Len(ps) - Len(qs)) : SubSeq(ps, off + 1, off + Len(qs)) = qs

\* one chunk holds paragraphs s..e + 1 in input order
RunInOneChunk(s, e) ==
    \E k \in DOMAIN chunks :
        ContainsBlock(ChunkParas(chunks[k]), SubSeq(paragraphs, s + 1, e + 2))

Indices == 0..(Len(paragraphs) - 1)

\* C6 as stated: every (maximal) run of 1 to 6 consecutive headings that is
\* immediately followed by a non-heading paragraph ends up, with that
\* paragraph, in one chunk of the returned list.
C6_RunMergedWithContent ==
    pc = "done" =>
        \A s \in Indices : \A e \in Indices :
            (HeadingRun(s, e) /\ (s = 0 \/ ~is_heading(Para(paragraphs, s - 1))))
                => RunInOneChunk(s, e)

\* the run s..e is one the deferred merge applies to: it starts where an
\* iteration of the main loop starts, no heading of it is over the hard
\* limit, a page break or a table, and the paragraph after it is no page
\* break
MergeableRun(s, e) ==
    /\ HeadingRun(s, e)
    /\ s \in starts
    /\ \A k \in s..e : /\ get_token_count(Para(paragraphs, k)) <= hard_limit
                       /\ ~is_page_break(Para(paragraphs, k))
                       /\ ~is_table(Para(paragraphs, k))
    /\ ~is_page_break(Para(paragraphs, e + 1))

\* C6 amended: a run of 1 to 6 consecutive headings that starts at the
\* cursor of a main-loop iteration, whose headings are within the hard limit
\* and neither page breaks nor tables, and that is immediately followed by a
\* non-heading paragraph that is not a page break, ends up, with that
\* paragraph, in one chunk of the returned list, in input order.
C6_MergeableRunMergedWithContent ==
    pc = "done" =>
        \A s \in Indices : \A e \in Indices :
            MergeableRun(s, e) => RunInOneChunk(s, e)

\* C6 witness: a run of several headings after the start of the input was
\* deferred and merged with the content that follows it
C6_Witness ==
    /\ pc = "done"
    /\ \E s \in Indices : \E e \in Indices :
          /\ MergeableRun(s, e) /\ s > 0 /\ e > s
          /\ ~is_heading(Para(paragraphs, s - 1))
          /\ RunInOneChunk(s, e)

\* the headings after paragraph from whose level is at most L
ClosingHeadings(from, L) ==
    { t \in Indices : /\ t > from
                      /\ is_heading(Para(paragraphs, t))
                      /\ get_heading_level(Para(paragraphs, t)) <= L }

\* C7 as stated: after a normal heading group was collected from a heading
\* of level L, the group is the initial heading and the paragraphs that
\* follow it up to the cursor, each of them a non-heading or a heading of
\* level greater than L; when a heading of level at most L follows the
\* initial heading, collection stopped at the first such heading and the
\* cursor is on it.
C7_StopsAtClosingHeading ==
    last.kind = "heading" =>
        /\ last.group = SubSeq(paragraphs, last.from + 1, i)
        /\ get_heading_level(last.group[1]) = last.level
        /\ \A k \in 2..Len(last.group) :
               \/ ~is_heading(last.group[k])
               \/ get_heading_level(last.group[k]) > last.level
        /\ ClosingHeadings(last.from, last.level) # {} =>
               /\ i \in ClosingHeadings(last.from, last.level)
               /\ \A t \in ClosingHeadings(last.from, last.level) : i <= t

\* C7 amended: after a normal heading group was collected from a heading of
\* level L, the group is the initial heading and the paragraphs that follow
\* it up to the cursor, each of them a non-heading or a heading of level
\* greater than L; the cursor is not beyond the first following heading of
\* level at most L, and it is on that heading, or at the end of the input,
\* or on an earlier paragraph whose tokens would take the group over
\* hard_limit.
C7_HeadingGroupNesting ==
    last.kind = "heading" =>
        /\ last.group = SubSeq(paragraphs, last.from + 1, i)
        /\ get_heading_level(last.group[1]) = last.level
        /\ \A k \in 2..Len(last.group) :
               \/ ~is_heading(last.group[k])
               \/ get_heading_level(last.group[k]) > last.level
        /\ \A t \in ClosingHeadings(last.from, last.level) : i <= t
        /\ (i < Len(paragraphs) /\ i \notin ClosingHeadings(last.from, last.level))
               => get_token_count(Join(last.group))
                  + get_token_count(Para(paragraphs, i)) > hard_limit

\* C7 witness: a group with a deeper subheading and content was closed by a
\* heading of the level of its initial heading, which is at the cursor
C7_Witness ==
    /\ last.kind = "heading"
    /\ Len(last.group) >= 3
    /\ \E k \in 2..Len(last.group) : is_heading(last.group[k])
    /\ pc = "loop"
    /\ i \in ClosingHeadings(last.from, last.level)

\* C8: for the empty input string chunk_text returns the empty list.
C8_EmptyInputNoChunks ==
    (pc = "done" /\ text = << >>) => chunks = << >>

\* the input is one paragraph of at most hard_limit tokens
SingleParagraphInput ==
    /\ Len(paragraphs) = 1
    /\ get_token_count(paragraphs[1]) <= hard_limit

\* C9: for an input of exactly one paragraph of at most hard_limit tokens
\* chunk_text returns exactly one chunk whose text is that paragraph, be it
\* a heading or not, and no chunk if the paragraph is a page break.
C9_SingleParagraph ==
    (pc = "done" /\ SingleParagraphInput) =>
        IF is_page_break(paragraphs[1])
        THEN chunks = << >>
        ELSE Len(chunks) = 1 /\ chunks[1].content = paragraphs[1]

\* C9 witness: a lone heading was deferred and emitted at finalization
C9_Witness ==
    /\ pc = "done"
    /\ SingleParagraphInput
    /\ is_heading(paragraphs[1])
    /\ ~is_page_break(paragraphs[1])
    /\ pending_headings = paragraphs
    /\ Len(chunks) = 1

\* a plain text paragraph: words, no heading, list item, table or page break
PlainText(p) ==
    /\ p # << >>
    /\ ~is_heading(p) /\ ~is_list_item(p) /\ ~is_table(p) /\ ~is_page_break(p)

\* the input is a page break followed by a plain text paragraph
PageBreakThenText ==
    /\ Len(paragraphs) = 2
    /\ is_page_break(paragraphs[1])
    /\ PlainText(paragraphs[2])

\* C10 as stated: for a page-break marker followed by a plain text
\* paragraph that is not a list item chunk_text returns exactly one chunk,
\* whose text is the plain text paragraph alone.
C10_PageBreakRemoved ==
    (pc = "done" /\ PageBreakThenText) =>
        Len(chunks) = 1 /\ chunks[1].content = paragraphs[2]

\* C10 amended: for a page-break marker followed by a plain text paragraph
\* that is not a list item, the two having together at most hard_limit
\* tokens, chunk_text returns exactly one chunk, whose text is the
\* page-break paragraph, a blank line and the plain text paragraph.
C10_PageBreakKept ==
    (/\ pc = "done"
     /\ PageBreakThenText
     /\ get_token_count(paragraphs[1]) + get_token_count(paragraphs[2]) <= hard_limit) =>
        Len(chunks) = 1 /\ chunks[1].content = Join(paragraphs)

\* C10 witness: the input of the claim was chunked within the hard limit
C10_Witness ==
    /\ pc = "done"
    /\ PageBreakThenText
    /\ ~is_heading(paragraphs[1])
    /\ get_token_count(paragraphs[1]) + get_token_count(paragraphs[2]) <= hard_limit
    /\ Len(chunks) = 1

\* the iteration that began at paragraph j took the table-grouping path
TableStepAt(j) ==
    /\ j \in starts
    /\ ~SkipCondition(paragraphs, j)
    /\ is_heading(Para(paragraphs, j))
    /\ get_token_count(Para(paragraphs, j)) <= hard_limit
    /\ (j + 1) < Len(paragraphs)
    /\ is_table(Para(paragraphs, j + 1))

\* the last paragraph of a chunk
LastPara(c) == ChunkParas(c)[Len(ChunkParas(c))]

\* C11: when an iteration begins at a heading within the hard limit whose
\* next paragraph is a table, and the table is followed by a paragraph that
\* is neither a heading nor a table, then once the iteration that begins at
\* that paragraph is over, the output ends with the table chunk, whose last
\* paragraph is the table, and a separate non-heading chunk that begins with
\* the following paragraph.  (Page breaks, which the page-break rules drop,
\* are left out of the headings and following paragraphs considered.)
C11_TableChunkThenSeparateContent ==
    \A j \in Indices :
        (/\ TableStepAt(j)
         /\ ~is_page_break(Para(paragraphs, j))
         /\ (j + 2) < Len(paragraphs)
         /\ ~is_heading(Para(paragraphs, j + 2))
         /\ ~is_table(Para(paragraphs, j + 2))
         /\ ~is_page_break(Para(paragraphs, j + 2))
         /\ last.kind = "nonheading" /\ last.from = j + 2) =>
            /\ Len(chunks) = last.nchunks + 1
            /\ last.nchunks >= 1
            /\ chunks[last.nchunks].reason.kind = "Table chunk"
            /\ LastPara(chunks[last.nchunks]) = Para(paragraphs, j + 1)
            /\ chunks[Len(chunks)].reason.kind = "Non-heading content"
            /\ ChunkParas(chunks[Len(chunks)])[1] = Para(paragraphs, j + 2)

\* paragraphs j and j + 1 are a (heading, table) pair
PairAt(j) ==
    /\ (j + 1) < Len(paragraphs)
    /\ is_heading(Para(paragraphs, j))
    /\ is_table(Para(paragraphs, j + 1))

\* C12: the table-grouping loop admits one or two (heading, table) pairs of
\* consecutive paragraphs, the cursor advances by two for each, the chunk
\* emitted is the pending headings followed by these pairs and names their
\* number, and a third consecutive pair is left at the cursor for the next
\* iteration.
C12_OneOrTwoPairs ==
    last.kind = "table" =>
        /\ Len(last.group) \in {2, 4}
        /\ i = last.from + Len(last.group)
        /\ last.group = SubSeq(paragraphs, last.from + 1, i)
        /\ \A k \in 0..(Len(last.group) \div 2 - 1) : PairAt(last.from + 2 * k)
        /\ Len(chunks) \in {last.nchunks, last.nchunks + 1}
        /\ Len(chunks) = last.nchunks + 1 =>
               /\ chunks[Len(chunks)].reason.kind = "Table chunk"
               /\ chunks[Len(chunks)].reason.a = Len(last.group) \div 2
               /\ ChunkParas(chunks[Len(chunks)]) = last.pend \o last.group

\* C12 witness: two pairs were admitted within the hard limit and a third
\* consecutive pair, which would fit as well, is at the cursor
C12_Witness ==
    /\ last.kind = "table"
    /\ Len(last.group) = 4
    /\ PairAt(i)
    /\ get_token_count(Join(SubSeq(paragraphs, last.from + 1, i + 2))) <= hard_limit
    /\ Len(chunks) = last.nchunks + 1

\* the tokens of paragraphs a..b (counted from 0)
TokensOf(a, b) == get_token_count(Join(SubSeq(paragraphs, a + 1, b + 1)))

\* C13: the table-grouping loop admits the first (heading, table) pair
\* whatever its token count; it admits a second pair exactly if the tokens
\* of both pairs together are at most hard_limit, and otherwise stops with
\* the cursor on the heading of the second pair.
C13_FirstPairAlwaysSecondIfFits ==
    last.kind = "table" =>
        /\ Len(last.group) >= 2
        /\ SubSeq(last.group, 1, 2) = SubSeq(paragraphs, last.from + 1, last.from + 2)
        /\ Len(last.group) = 4 => TokensOf(last.from, last.from + 3) <= hard_limit
        /\ PairAt(last.from + 2) =>
               IF TokensOf(last.from, last.from + 3) <= hard_limit
               THEN Len(last.group) = 4 /\ i = last.from + 4
               ELSE Len(last.group) = 2 /\ i = last.from + 2

\* C13 witness: a first pair above the hard limit was admitted and the
\* second pair was left at the cursor
C13_Witness ==
    /\ last.kind = "table"
    /\ TokensOf(last.from, last.from + 1) > hard_limit
    /\ Len(last.group) = 2
    /\ PairAt(i)
    /\ Len(chunks) = last.nchunks + 1

\* the contents of a sequence of chunks one after the other
RECURSIVE ConcatContents(_)
ConcatContents(cs) ==
    IF cs = << >> THEN << >> ELSE Head(cs).content \o ConcatContents(Tail(cs))

\* the iteration flushed the pending headings as a chunk of their own
FlushedPending == last.pend # << >> /\ ~AllPageBreaks(last.pend)

\* the chunks an iteration appended after the flushed pending headings
WindowsOfLast ==
    SubSeq(chunks, last.nchunks + (IF FlushedPending THEN 1 ELSE 0) + 1, Len(chunks))

\* C14: an iteration at a heading of n words, n above hard_limit, emits
\* exactly ceil(n / hard_limit) window chunks: each holds hard_limit words,
\* the last one between 1 and hard_limit; the windows one after the other
\* are the words of the heading; the cursor advances by one.
C14_ForceSplitWindows ==
    last.kind = "force" =>
        LET words == last.group[1]
            n == Len(words)
            m == (n + hard_limit - 1) \div hard_limit
            w == WindowsOfLast
        IN  /\ n > hard_limit
            /\ words = Para(paragraphs, last.from)
            /\ Len(w) = m
            /\ \A k \in 1..(m - 1) : get_token_count(w[k].content) = hard_limit
            /\ get_token_count(w[m].content) \in 1..hard_limit
            /\ \A k \in 1..m : w[k].reason.kind = "Force-split oversized heading"
            /\ ConcatContents(w) = words
            /\ i = last.from + 1

\* C14 witness: a heading was split into three or more windows, the last
\* one shorter than the others
C14_Witness ==
    /\ last.kind = "force"
    /\ Len(WindowsOfLast) >= 3
    /\ get_token_count(chunks[Len(chunks)].content) < hard_limit
    /\ Len(last.group[1]) > 2 * hard_limit

\* C15: when an oversized heading is met while the pending buffer is not
\* empty, the pending paragraphs are emitted as one chunk of their own right
\* before the first window, or no chunk is emitted for them if all of them
\* are page breaks; the buffer is empty after the iteration in both cases.
C15_PendingFlushedBeforeWindows ==
    (last.kind = "force" /\ last.pend # << >>) =>
        /\ pending_headings = << >>
        /\ Len(chunks) > last.nchunks
        /\ IF AllPageBreaks(last.pend)
           THEN /\ chunks[last.nchunks + 1].reason.kind = "Force-split oversized heading"
                /\ chunks[last.nchunks + 1].reason.a = 0
           ELSE /\ chunks[last.nchunks + 1].content = Join(last.pend)
                /\ chunks[last.nchunks + 1].reason.kind
                       = "Flushing pending headings before oversized heading"
                /\ Len(chunks) > last.nchunks + 1
                /\ chunks[last.nchunks + 2].reason.kind = "Force-split oversized heading"
                /\ chunks[last.nchunks + 2].reason.a = 0
        /\ \A k \in (last.nchunks + 2)..Len(chunks) :
               chunks[k].reason.kind = "Force-split oversized heading"

\* C15 witness: two pending headings were flushed as a chunk before the
\* windows of an oversized heading
C15_Witness ==
    /\ last.kind = "force"
    /\ Len(last.pend) >= 2
    /\ ~AllPageBreaks(last.pend)
    /\ Len(chunks) >= last.nchunks + 3
    /\ pending_headings = << >>

\* the step is the finalization of a call with pending headings
FinalizationStep == pc = "loop" /\ pc' = "done" /\ pending_headings # << >>

\* C16: finalization with pending headings and at least one chunk keeps the
\* number of chunks and every chunk before the last; the last chunk becomes
\* its former paragraphs followed by the pending paragraphs and its reason
\* gets the suffix " + trailing headings", unless former and pending
\* paragraphs are all page breaks, in which case the last chunk is kept.
C16_TrailingHeadingsMerged ==
    [][(FinalizationStep /\ chunks # << >>) =>
          LET n == Len(chunks)
              combined == ChunkParas(chunks[n]) \o pending_headings
          IN  /\ Len(chunks') = n
              /\ \A k \in 1..(n - 1) : chunks'[k] = chunks[k]
              /\ IF AllPageBreaks(combined)
                 THEN chunks'[n] = chunks[n]
                 ELSE /\ ChunkParas(chunks'[n]) = combined
                      /\ chunks'[n].content = Join(combined)
                      /\ chunks'[n].reason = [chunks[n].reason EXCEPT !.trailing = TRUE]
                      /\ ~chunks[n].reason.trailing]_vars

\* C16 witness: trailing headings were merged into the last of several
\* chunks
C16_Witness ==
    /\ pc = "done"
    /\ last.pend # << >>
    /\ last.nchunks >= 2
    /\ Len(chunks) = last.nchunks
    /\ chunks[Len(chunks)].reason.trailing
    /\ Len(ChunkParas(chunks[Len(chunks)])) > Len(last.pend)

\* C17: finalization with pending headings and no chunk emits exactly one
\* chunk holding all pending paragraphs in order, unless they are all page
\* breaks, in which case the output stays the empty list.
C17_OnlyPendingHeadings ==
    [][(FinalizationStep /\ chunks = << >>) =>
          IF AllPageBreaks(pending_headings)
          THEN chunks' = << >>
          ELSE /\ Len(chunks') = 1
               /\ ChunkParas(chunks'[1]) = pending_headings
               /\ chunks'[1].content = Join(pending_headings)
               /\ chunks'[1].reason.kind = "Only pending headings"
               /\ chunks'[1].reason.a = Len(pending_headings)]_vars

\* C17 witness: a call ended with several pending headings as its only chunk
C17_Witness ==
    /\ pc = "done"
    /\ last.nchunks = 0
    /\ Len(last.pend) >= 2
    /\ Len(chunks) = 1
    /\ ChunkParas(chunks[1]) = last.pend

\* C18: the output list is append-only during the main loop: no step removes
\* a chunk or changes a chunk already in the list; an existing chunk changes
\* only in the finalization step, which replaces the last chunk by its merge
\* with the trailing pending headings.
C18_OutputAppendOnly ==
    [][/\ Len(chunks') >= Len(chunks)
       /\ \A k \in 1..(Len(chunks) - 1) : chunks'[k] = chunks[k]
       /\ (chunks # << >> /\ chunks'[Len(chunks)] # chunks[Len(chunks)]) =>
              /\ FinalizationStep
              /\ Len(chunks') = Len(chunks)
              /\ chunks'[Len(chunks)].reason.trailing]_vars

\* C18 witness: an iteration of the main loop appended to a list that
\* already held two chunks
C18_Witness ==
    /\ pc = "loop"
    /\ last.kind \in {"force", "table", "heading", "nonheading"}
    /\ last.nchunks >= 2
    /\ Len(chunks) > last.nchunks

\* the cursor values at which a step began at a page break followed by a
\* list item
SkippedAt == { j \in starts : SkipCondition(paragraphs, j) }

\* the paragraphs ps from index k on without those at the indices of drop
RECURSIVE Without(_, _, _)
Without(ps, drop, k) ==
    IF k >= Len(ps) THEN << >>
    ELSE (IF k \in drop THEN << >> ELSE << Para(ps, k) >>) \o Without(ps, drop, k + 1)

\* C19: a step that begins at a page break followed by a list item moves
\* the cursor forward by exactly one and leaves the output list and the
\* pending buffer as they were; the page-break paragraph is in no emitted
\* chunk: the output is made of the other paragraphs only.
C19_PageBreakBeforeListSkipped ==
    /\ [][(InLoop /\ SkipCondition(paragraphs, i)) =>
             /\ i' = i + 1
             /\ chunks' = chunks
             /\ pending_headings' = pending_headings]_vars
    /\ [](IsSubsequence(Reassemble(chunks, << >>),
                        Without(paragraphs, SkippedAt, 0)))

\* C19 witness: a page break before a list item was skipped with a chunk in
\* the list and headings pending
C19_Witness ==
    /\ last.kind = "skip"
    /\ last.pend # << >>
    /\ last.nchunks >= 1
    /\ i = last.from + 1
    /\ last.from \in SkippedAt
    /\ pending_headings = last.pend
    /\ Len(chunks) = last.nchunks

\* the step is the collection of a normal heading group: it begins at a
\* heading within the hard limit that no table follows
HeadingGroupStep ==
    /\ InLoop
    /\ ~SkipCondition(paragraphs, i)
    /\ is_heading(Para(paragraphs, i))
    /\ get_token_count(Para(paragraphs, i)) <= hard_limit
    /\ ~((i + 1) < Len(paragraphs) /\ is_table(Para(paragraphs, i + 1)))

\* C20: a normal heading group is deferred exactly when all its paragraphs
\* are headings and it has 1 to 6 paragraphs: the step then appends the
\* group to the pending buffer and leaves the output list unchanged.
\* Otherwise the step prepends the pending buffer to the group, empties the
\* buffer and emits one chunk, unless every paragraph of it is a page break.
C20_DeferOrEmitHeadingGroup ==
    [][HeadingGroupStep =>
          LET g == last'.group
              merged == pending_headings \o g
          IN  /\ last'.kind = "heading"
              /\ g # << >>
              /\ IF (\A k \in 1..Len(g) : is_heading(g[k])) /\ Len(g) <= 6
                 THEN /\ pending_headings' = merged
                      /\ chunks' = chunks
                 ELSE /\ pending_headings' = << >>
                      /\ IF \A k \in 1..Len(merged) : is_page_break(merged[k])
                         THEN chunks' = chunks
                         ELSE /\ Len(chunks') = Len(chunks) + 1
                              /\ \A k \in 1..Len(chunks) : chunks'[k] = chunks[k]
                              /\ chunks'[Len(chunks) + 1].content = Join(merged)]_vars

\* C20 witness: a group of seven headings was emitted as one chunk
C20_Witness ==
    /\ last.kind = "heading"
    /\ Len(last.group) = 7
    /\ AllHeadings(last.group)
    /\ pending_headings = << >>
    /\ Len(chunks) = last.nchunks + 1
    /\ chunks[Len(chunks)].content = Join(last.pend \o last.group)

\* C21: in every reachable state every paragraph held in the pending buffer
\* is classified as a heading, also after the non-heading branch merged the
\* buffer into its group and deferred again.
C21_PendingHoldsHeadingsOnly ==
    \A k \in 1..Len(pending_headings) : is_heading(pending_headings[k])

\* C21 witness: the non-heading branch merged several pending headings into
\* its group and deferred them again
C21_Witness ==
    /\ last.kind = "nonheading"
    /\ Len(last.pend) >= 2
    /\ pending_headings = last.pend \o last.group
    /\ Len(chunks) = last.nchunks

\* a step of the main loop that appends to the output list leaves the
\* pending buffer empty
EmittingStepClearsPending ==
    (pc = "loop" /\ pc' = "loop" /\ Len(chunks') > Len(chunks)) =>
        pending_headings' = << >>

\* C22 as stated: the pending buffer is empty right after every main-loop
\* step that appends a chunk, and in every reachable state no paragraph
\* occurrence is both in the pending buffer and in an emitted chunk: the
\* paragraphs of the chunks followed by the pending ones are distinct
\* occurrences of input paragraphs, in input order.
C22_PendingDisjointFromChunks ==
    /\ [][EmittingStepClearsPending]_vars
    /\ [](IsSubsequence(Reassemble(chunks, << >>) \o pending_headings, paragraphs))

\* C22 amended: the pending buffer is empty right after every main-loop
\* step that appends a chunk, and in every reachable state before the
\* finalization step the paragraphs of the chunks followed by the pending
\* ones are distinct occurrences of the paragraphs before the cursor, in
\* input order; the finalization step puts the pending headings into a chunk
\* without clearing the buffer.
C22_PendingDisjointUntilFinalization ==
    /\ [][EmittingStepClearsPending]_vars
    /\ [](pc = "loop" =>
             IsSubsequence(Reassemble(chunks, << >>) \o pending_headings,
                           SubSeq(paragraphs, 1, Min(i, Len(paragraphs)))))
    /\ [][(FinalizationStep /\ ~AllPageBreaks(pending_headings)) =>
             /\ pending_headings' = pending_headings
             /\ LET lastp == ChunkParas(chunks'[Len(chunks')])
                IN  SubSeq(lastp, Len(lastp) - Len(pending_headings) + 1, Len(lastp))
                        = pending_headings]_vars

\* C22 witness: a main-loop step merged several pending headings into the
\* chunk it appended and left the buffer empty
C22_Witness ==
    /\ pc = "loop"
    /\ last.kind \in {"force", "table", "heading", "nonheading"}
    /\ Len(last.pend) >= 2
    /\ Len(chunks) > last.nchunks
    /\ pending_headings = << >>

\* the step begins at a paragraph that is not a heading and is not a page
\* break to be skipped
NonHeadingStep ==
    /\ InLoop
    /\ ~SkipCondition(paragraphs, i)
    /\ ~is_heading(Para(paragraphs, i))

\* C23: a non-heading step that admits at least one paragraph collects the
\* paragraphs from the cursor on; the group holds no heading, its token sum
\* is at most hard_limit, and it ends at the first heading, at the first
\* paragraph that would overflow, or at the end of the input.  The step
\* never defers: it empties the pending buffer and emits the pending
\* headings followed by the group as one chunk, or drops them when all of
\* them are page breaks.
C23_NonHeadingGroupEmitted ==
    [][(NonHeadingStep /\ last'.group # << >>) =>
          LET g == last'.group
              merged == pending_headings \o g
          IN  /\ last'.kind = "nonheading"
              /\ i' = i + Len(g)
              /\ i' <= Len(paragraphs)
              /\ g = SubSeq(paragraphs, i + 1, i')
              /\ \A k \in 1..Len(g) : ~is_heading(g[k])
              /\ TokensOf(i, i' - 1) <= hard_limit
              /\ \/ i' = Len(paragraphs)
                 \/ is_heading(Para(paragraphs, i'))
                 \/ TokensOf(i, i') > hard_limit
              /\ pending_headings' = << >>
              /\ IF \A k \in 1..Len(merged) : is_page_break(merged[k])
                 THEN chunks' = chunks
                 ELSE /\ Len(chunks') = Len(chunks) + 1
                      /\ \A k \in 1..Len(chunks) : chunks'[k] = chunks[k]
                      /\ chunks'[Len(chunks) + 1].content = Join(merged)]_vars

\* C23 witness: a non-heading step collected two paragraphs up to a heading
\* and emitted them after the pending headings
C23_Witness ==
    /\ last.kind = "nonheading"
    /\ Len(last.group) >= 2
    /\ last.stop = "heading"
    /\ last.pend # << >>
    /\ pending_headings = << >>
    /\ Len(chunks) = last.nchunks + 1
    /\ chunks[Len(chunks)].content = Join(last.pend \o last.group)

\* the paragraph at the cursor is a heading with more tokens than hard_limit
OversizedHeadingAt(j) ==
    is_heading(Para(paragraphs, j)) /\ get_token_count(Para(paragraphs, j)) > hard_limit

\* a table follows the paragraph at j
TableFollows(j) == (j + 1) < Len(paragraphs) /\ is_table(Para(paragraphs, j + 1))

\* the first rule whose test holds at the cursor is the one the step takes:
\* page-break suppression, then the oversized-heading test, then the
\* heading-and-table test, then the normal heading group
RulesTriedInOrder ==
    InLoop =>
        /\ SkipCondition(paragraphs, i) =>
               /\ last'.kind = "skip"
               /\ i' = i + 1 /\ chunks' = chunks
               /\ pending_headings' = pending_headings
        /\ (~SkipCondition(paragraphs, i) /\ OversizedHeadingAt(i)) =>
               /\ last'.kind = "force"
               /\ i' = i + 1
               /\ Len(chunks') > Len(chunks)
               /\ \A k \in (Len(chunks) + 1)..Len(chunks') :
                      chunks'[k].reason.kind # "Table chunk"
               /\ chunks'[Len(chunks')].reason.kind = "Force-split oversized heading"
        /\ (/\ ~SkipCondition(paragraphs, i) /\ is_heading(Para(paragraphs, i))
            /\ ~OversizedHeadingAt(i) /\ TableFollows(i)) => last'.kind = "table"
        /\ (/\ ~SkipCondition(paragraphs, i) /\ is_heading(Para(paragraphs, i))
            /\ ~OversizedHeadingAt(i) /\ ~TableFollows(i)) => last'.kind = "heading"

\* the paragraphs a table step collected hold a heading over hard_limit that
\* a table follows
OversizedHeadingInTableGroup ==
    /\ last.kind = "table"
    /\ \E t \in last.from..(i - 1) : OversizedHeadingAt(t) /\ TableFollows(t)

\* C26 as stated: the rules of a step are tried in a fixed order: page-break
\* suppression, then the oversized-heading test, then the heading-and-table
\* test, then the normal heading group.  Hence a heading over hard_limit
\* that a table follows is force-split and never enters a table group, and
\* a heading that is also a page break and is followed by a list item is
\* dropped.
C26_RulePriority ==
    /\ [][RulesTriedInOrder]_vars
    /\ [](~OversizedHeadingInTableGroup)

\* C26 amended: the rules of a step are tried in that fixed order at the
\* paragraph at the cursor.  Hence a step that begins at a heading over
\* hard_limit that a table follows force-splits it and emits no table chunk,
\* the heading member of every pair of a table group is within hard_limit,
\* and a heading that is also a page break and is followed by a list item is
\* dropped.  A heading over hard_limit that a table follows does enter a
\* table group, unsplit, when it is itself a table and is taken as the table
\* member of a pair: only there.
C26_RulePriorityAtCursor ==
    /\ [][RulesTriedInOrder]_vars
    /\ [](last.kind = "table" =>
             \A t \in last.from..(i - 1) :
                 /\ (t - last.from) % 2 = 0 =>
                        /\ is_heading(Para(paragraphs, t))
                        /\ get_token_count(Para(paragraphs, t)) <= hard_limit
                 /\ (t - last.from) % 2 = 1 => is_table(Para(paragraphs, t))
                 /\ (OversizedHeadingAt(t) /\ TableFollows(t)) =>
                        /\ (t - last.from) % 2 = 1
                        /\ is_table(Para(paragraphs, t)))

\* C26 witness: a heading over the hard limit that a table follows was
\* force-split
C26_Witness ==
    /\ last.kind = "force"
    /\ TableFollows(last.from)
    /\ OversizedHeadingAt(last.from)
    /\ i = last.from + 1
    /\ chunks[Len(chunks)].reason.kind = "Force-split oversized heading"

\* C27: in every reachable state the cursor is between 0 and the number of
\* paragraphs, and no step moves it backwards; the table-grouping loop moves
\* it by two only over a paragraph that exists, so that the cursor never
\* passes the end of the sequence.
C27_CursorInRangeAndMonotone ==
    /\ [](0 <= i /\ i <= Len(paragraphs))
    /\ [][i' >= i]_vars
    /\ [][(InLoop /\ last'.kind = "table") =>
             /\ i' \in {i + 2, i + 4}
             /\ i' <= Len(paragraphs)
             /\ \A k \in (i + 1)..i' : k \in DOMAIN paragraphs]_vars

\* C27 witness: a table step took the last two paragraphs of the input as its
\* second pair and left the cursor at the end
C27_Witness ==
    /\ pc = "loop"
    /\ last.kind = "table"
    /\ i = last.from + 4
    /\ i = Len(paragraphs)

\* the paragraphs of ps that are not page breaks, in order
NonPageBreaks(ps) == SelectSeq(ps, LAMBDA p : ~is_page_break(p))

\* C28: when chunk_text returns, every input paragraph that is not a page
\* break is in exactly one chunk, whole or as the windows of its force
\* split, and only page breaks were dropped: the paragraphs of the chunks
\* are a subsequence of the input, and without the page breaks both
\* sequences are the same.
C28_OnlyPageBreaksDropped ==
    pc = "done" =>
        /\ IsSubsequence(Reassemble(chunks, << >>), paragraphs)
        /\ NonPageBreaks(Reassemble(chunks, << >>)) = NonPageBreaks(paragraphs)

\* C28 witness: a call returned several chunks, one of them a window of a
\* force split, and dropped a page break
C28_Witness ==
    /\ pc = "done"
    /\ Len(chunks) >= 3
    /\ \E k \in 1..Len(chunks) : chunks[k].reason.kind = "Force-split oversized heading"
    /\ Len(Reassemble(chunks, << >>)) < Len(paragraphs)
    /\ NonPageBreaks(paragraphs) # << >>

\* b is what is left of a after an even number of its first elements were
\* removed
EvenSuffix(a, b) ==
    /\ Len(b) <= Len(a)
    /\ (Len(a) - Len(b)) % 2 = 0
    /\ b = SubSeq(a, Len(a) - Len(b) + 1, Len(a))

\* C29: truncate_context_to_fit always terminates and keeps every system
\* message.  Over max_tokens it removes non-system messages from the oldest
\* end only, two at a time, and removes a pair only while the estimate is
\* over max_tokens and more than two non-system messages remain, so that the
\* result is within max_tokens or has at most two non-system messages.  An
\* input within max_tokens is returned unchanged.
C29_TruncationBoundedAndMinimal ==
    /\ <>(tpc = "done")
    /\ [](tpc = "done" =>
             /\ SystemMessages(truncated) = SystemMessages(messages)
             /\ EvenSuffix(Conversation(messages), Conversation(truncated))
             /\ \/ estimate_token_count(JoinContents(truncated)) <= max_tokens
                \/ Len(Conversation(truncated)) <= 2
             /\ estimate_token_count(JoinContents(messages)) <= max_tokens
                    => truncated = messages
             /\ Len(Conversation(truncated)) < Len(Conversation(messages)) =>
                    LET kept == Len(Conversation(truncated)) + 2
                        all == Conversation(messages)
                        before == SystemMessages(messages)
                                  \o SubSeq(all, Len(all) - kept + 1, Len(all))
                    IN  estimate_token_count(JoinContents(before)) > max_tokens)
    /\ [][conversation' # conversation /\ tpc = "loop" =>
             /\ conversation' = Tail(Tail(conversation))
             /\ estimated_tokens > max_tokens
             /\ Len(conversation) > 2
             /\ system_messages' = system_messages]_vars

\* C29 witness: the oldest pair was removed from a list with a system message
\* after its first non-system message, and the result, of more than two
\* non-system messages, is within max_tokens
C29_Witness ==
    /\ tpc = "done"
    /\ Len(Conversation(messages)) = Len(Conversation(truncated)) + 2
    /\ Len(Conversation(truncated)) > 2
    /\ SystemMessages(messages) # << >>
    /\ messages[1].role # "system"
    /\ estimate_token_count(JoinContents(truncated)) <= max_tokens

\* C30: the retry loop of generate_embedding is bounded: for a text of at
\* least 10 characters it makes at most max_attempts calls that fail,
\* whatever error each of them raises, and then returns None; for a text
\* that is None or shorter than 10 characters it returns None without a
\* call.
C30_RetryLoopBounded ==
    /\ calls <= max_attempts
    /\ (etext = None \/ Len(etext) < MinChars) => calls = 0
    /\ (epc = "done" /\ (etext = None \/ Len(etext) < MinChars)) => embedding = None

\* C24: two runs of chunk_text on the same text with the same hard limit
\* return the same list of chunks and reasons whatever their soft limits
\* are.
C24_SoftLimitIgnored ==
    (/\ pc = "done" /\ other.pc = "done"
     /\ other.text = text /\ other.hard_limit = hard_limit) =>
        other.chunks = chunks

\* C24 witness: two runs on the same text with the same hard limit and
\* different soft limits returned several chunks
C24_Witness ==
    /\ pc = "done" /\ other.pc = "done"
    /\ other.text = text /\ other.hard_limit = hard_limit
    /\ other.soft_limit # soft_limit
    /\ Len(chunks) >= 2
    /\ other.chunks = chunks

\* the locals of the first invocation
Locals ==
    [text |-> text, soft_limit |-> soft_limit, hard_limit |-> hard_limit,
     paragraphs |-> paragraphs, chunks |-> chunks, i |-> i,
     pending_headings |-> pending_headings, pc |-> pc]

\* C25: two invocations of chunk_text whose steps are interleaved in any
\* order each return what they return when run alone; a step of one
\* invocation changes the locals of that invocation only, as their values
\* before the step determine.
C25_InterleavingIndependent ==
    /\ [](pc = "done" => chunks = chunk_text(text, soft_limit, hard_limit))
    /\ [](other.pc = "done" =>
             other.chunks = chunk_text(other.text, other.soft_limit, other.hard_limit))
    /\ [][/\ other' # other => (Locals' = Locals /\ other' = StepOf(other))
          /\ Locals' # Locals => (other' = other /\ Locals' = StepOf(Locals))]_vars

\* C25 witness: two invocations on different texts both returned, each
\* with several chunks of its own
C25_Witness ==
    /\ pc = "done" /\ other.pc = "done"
    /\ other.text # text
    /\ Len(chunks) >= 2 /\ Len(other.chunks) >= 2
    /\ chunks # other.chunks

====
